---- MODULE Spec2Model ----
(***************************************************************************)
(* Model of the zookeeper animal API of src/server.js (lines 1-185): the   *)
(* in-memory `animals` array loaded from data/animals.json, the three API  *)
(* routes GET /api/animals, GET /api/animals/:id and POST /api/animals,    *)
(* and the helpers filterByQuery, findById, createNewAnimal and            *)
(* validateAnimal.                                                         *)
(*                                                                         *)
(* A JavaScript value is a record [type, val]: type is the value's kind    *)
(* ("string", "number", "array", "undefined") and val a sequence of        *)
(* strings: the one string of a string value, the digits of a number, the  *)
(* elements of an array of strings, nothing for undefined (a missing       *)
(* property reads as undefined).                                           *)
(***************************************************************************)
EXTENDS Integers, Sequences, FiniteSets, TLC

VARIABLES
    animals,   \* the in-memory array (server.js:4), mutated by push
    file,      \* the text of data/animals.json, as a sequence of chunks
    loaded,    \* the array as require() parsed it at start-up (server.js:4)
    req,       \* the request being answered
    res,       \* the response sent for it
    returned   \* the records that POST /api/animals has answered with so far

vars == <<animals, file, loaded, req, res, returned>>

\* Largest length the in-memory array is allowed to reach in the model.
MaxAnimals == 3

-----------------------------------------------------------------------------
(* JavaScript values *)

Str(s) == [type |-> "string", val |-> <<s>>]
Num(d) == [type |-> "number", val |-> <<d>>]
Arr(elems) == [type |-> "array", val |-> elems]
Undefined == [type |-> "undefined", val |-> <<>>]

\* ToBoolean: "" , 0 and undefined are falsy; every array is truthy.
Truthy(v) ==
    CASE v.type = "string" -> v.val[1] # ""
      [] v.type = "number" -> v.val[1] # "0"
      [] v.type = "array" -> TRUE
      [] OTHER -> FALSE

\* typeof v === 'string'
IsString(v) == v.type = "string"

\* Array.isArray(v)
IsArray(v) == v.type = "array"

\* a === b : same type and same primitive value; two distinct array objects
\* are never strictly equal.
StrictEquals(a, b) ==
    /\ a.type = b.type
    /\ a.type # "array"
    /\ a.val = b.val

Digit(d) ==
    CASE d = 0 -> "0" [] d = 1 -> "1" [] d = 2 -> "2" [] d = 3 -> "3"
      [] d = 4 -> "4" [] d = 5 -> "5" [] d = 6 -> "6" [] d = 7 -> "7"
      [] d = 8 -> "8" [] d = 9 -> "9"

\* Number.prototype.toString of a non-negative integer: its decimal digits.
RECURSIVE toString(_)
toString(n) ==
    IF n < 10 THEN Digit(n) ELSE toString(n \div 10) \o Digit(n % 10)

\* Array.prototype.indexOf: the zero-based index of the first element
\* strictly equal to x, or -1.
indexOf(arr, x) ==
    IF \E i \in 1..Len(arr) : arr[i] = x
    THEN (CHOOSE i \in 1..Len(arr) :
              /\ arr[i] = x
              /\ \A j \in 1..(i - 1) : arr[j] # x) - 1
    ELSE -1

-----------------------------------------------------------------------------
(* filterByQuery, server.js:44-76 *)

\* Variant: a record is kept when it has any one of the traits.
forEachTrait_Any(personalityTraitsArray, filteredResults) ==
    SelectSeq(filteredResults,
              LAMBDA animal :
                  \E i \in 1..Len(personalityTraitsArray) :
                      indexOf(animal.personalityTraits.val, personalityTraitsArray[i]) # -1)

\* personalityTraitsArray.forEach(trait => filteredResults = filter(...))
RECURSIVE forEachTrait(_, _)
forEachTrait(personalityTraitsArray, filteredResults) ==
    IF personalityTraitsArray = <<>>
    THEN filteredResults
    ELSE forEachTrait(
             Tail(personalityTraitsArray),
             SelectSeq(filteredResults,
                       LAMBDA animal :
                           indexOf(animal.personalityTraits.val,
                                   Head(personalityTraitsArray)) # -1))

\* Variant: the species criterion is left out.
filterByQuery_NoSpecies(query, animalsArray) ==
    LET personalityTraitsArray ==
            IF IsString(query.personalityTraits)
            THEN <<query.personalityTraits.val[1]>>
            ELSE query.personalityTraits.val
        r1 == IF Truthy(query.personalityTraits)
              THEN forEachTrait(personalityTraitsArray, animalsArray)
              ELSE animalsArray
        r2 == IF Truthy(query.diet)
              THEN SelectSeq(r1, LAMBDA animal : StrictEquals(animal.diet, query.diet))
              ELSE r1
        r4 == IF Truthy(query.name)
              THEN SelectSeq(r2, LAMBDA animal : StrictEquals(animal.name, query.name))
              ELSE r2
    IN  r4

filterByQuery(query, animalsArray) ==
    LET personalityTraitsArray ==
            IF IsString(query.personalityTraits)
            THEN <<query.personalityTraits.val[1]>>
            ELSE query.personalityTraits.val
        r1 == IF Truthy(query.personalityTraits)
              THEN forEachTrait(personalityTraitsArray, animalsArray)
              ELSE animalsArray
        r2 == IF Truthy(query.diet)
              THEN SelectSeq(r1, LAMBDA animal : StrictEquals(animal.diet, query.diet))
              ELSE r1
        r3 == IF Truthy(query.species)
              THEN SelectSeq(r2, LAMBDA animal : StrictEquals(animal.species, query.species))
              ELSE r2
        r4 == IF Truthy(query.name)
              THEN SelectSeq(r3, LAMBDA animal : StrictEquals(animal.name, query.name))
              ELSE r3
    IN  r4

-----------------------------------------------------------------------------
(* findById, server.js:78-81: the matching records; element [0] of them is *)
(* the result, and no element is undefined.                                *)

\* Variant: the comparison is inverted.
findById_NotEqual(id, animalsArray) ==
    LET result == SelectSeq(animalsArray, LAMBDA animal : ~StrictEquals(animal.id, id))
    IN  IF result = <<>> THEN <<>> ELSE <<result[1]>>

findById(id, animalsArray) ==
    LET result == SelectSeq(animalsArray, LAMBDA animal : StrictEquals(animal.id, id))
    IN  IF result = <<>> THEN <<>> ELSE <<result[1]>>

-----------------------------------------------------------------------------
(* validateAnimal, server.js:95-113 *)

\* Variant: only the types are checked, not the truthiness.
validateAnimal_TypesOnly(animal) ==
    IF ~IsString(animal.name) THEN FALSE
    ELSE IF ~IsString(animal.species) THEN FALSE
    ELSE IF ~IsString(animal.diet) THEN FALSE
    ELSE IF ~IsArray(animal.personalityTraits) THEN FALSE
    ELSE TRUE

\* Variant: the name check is left out.
validateAnimal_NoName(animal) ==
    IF ~Truthy(animal.species) \/ ~IsString(animal.species) THEN FALSE
    ELSE IF ~Truthy(animal.diet) \/ ~IsString(animal.diet) THEN FALSE
    ELSE IF ~Truthy(animal.personalityTraits) \/ ~IsArray(animal.personalityTraits)
         THEN FALSE
    ELSE TRUE

validateAnimal(animal) ==
    IF ~Truthy(animal.name) \/ ~IsString(animal.name) THEN FALSE
    ELSE IF ~Truthy(animal.species) \/ ~IsString(animal.species) THEN FALSE
    ELSE IF ~Truthy(animal.diet) \/ ~IsString(animal.diet) THEN FALSE
    ELSE IF ~Truthy(animal.personalityTraits) \/ ~IsArray(animal.personalityTraits)
         THEN FALSE
    ELSE TRUE

-----------------------------------------------------------------------------
(* JSON.stringify({ animals: animalsArray }, null, 2), server.js:88.  The  *)
(* text is kept as a sequence of chunks: the opening of the envelope, one  *)
(* chunk per record, the closing of the envelope.  A property whose value  *)
(* is undefined is left out, a string is quoted, a number is not.          *)

Quote(s) == "\"" \o s \o "\""

RECURSIVE JoinQuoted(_)
JoinQuoted(elems) ==
    IF elems = <<>> THEN ""
    ELSE IF Len(elems) = 1 THEN Quote(elems[1])
    ELSE Quote(elems[1]) \o "," \o JoinQuoted(Tail(elems))

StringifyValue(v) ==
    CASE v.type = "string" -> Quote(v.val[1])
      [] v.type = "number" -> v.val[1]
      [] v.type = "array" -> "[" \o JoinQuoted(v.val) \o "]"

StringifyProperty(key, v) ==
    IF v.type = "undefined" THEN "" ELSE Quote(key) \o ":" \o StringifyValue(v) \o ";"

StringifyAnimal(animal) ==
    "{" \o StringifyProperty("name", animal.name)
        \o StringifyProperty("species", animal.species)
        \o StringifyProperty("diet", animal.diet)
        \o StringifyProperty("personalityTraits", animal.personalityTraits)
        \o StringifyProperty("id", animal.id) \o "}"

stringify(animalsArray) ==
    <<"{\"animals\":[">>
        \o [i \in 1..Len(animalsArray) |-> StringifyAnimal(animalsArray[i])]
        \o <<"]}">>

-----------------------------------------------------------------------------
(* fs.writeFileSync(path, data), server.js:86-89.  The call either returns *)
(* with the file holding data, or throws.  When it throws the file is as   *)
(* it was (the open failed), or it was truncated on open and holds what    *)
(* had been written of data: nothing, a part, or all of it (the close      *)
(* failed).                                                                *)

writeFileSync(old, data) ==
    {[file |-> data, threw |-> FALSE], [file |-> old, threw |-> TRUE]}
        \cup {[file |-> SubSeq(data, 1, k), threw |-> TRUE] : k \in 0..Len(data)}

-----------------------------------------------------------------------------
(* createNewAnimal, server.js:83-93: the outcomes of pushing body onto     *)
(* animalsArray and rewriting the file; the push is done before the write  *)
(* and stays done when the write throws.                                   *)

\* Variant: the file is written before the push.
createNewAnimal_WriteFirst(body, animalsArray, oldFile) ==
    LET animal == body
        pushed == Append(animalsArray, animal)
    IN  {[animals |-> pushed, file |-> w.file, threw |-> w.threw, animal |-> animal] :
            w \in writeFileSync(oldFile, stringify(animalsArray))}

\* Variant: the record is put at the front (unshift).
createNewAnimal_Unshift(body, animalsArray, oldFile) ==
    LET animal == body
        pushed == <<animal>> \o animalsArray
    IN  {[animals |-> pushed, file |-> w.file, threw |-> w.threw, animal |-> animal] :
            w \in writeFileSync(oldFile, stringify(pushed))}

\* Variant: the push is undone when the write throws.
createNewAnimal_Rollback(body, animalsArray, oldFile) ==
    LET animal == body
        pushed == Append(animalsArray, animal)
    IN  {[animals |-> IF w.threw THEN animalsArray ELSE pushed,
          file |-> w.file, threw |-> w.threw, animal |-> animal] :
            w \in writeFileSync(oldFile, stringify(pushed))}

createNewAnimal(body, animalsArray, oldFile) ==
    LET animal == body
        pushed == Append(animalsArray, animal)
    IN  {[animals |-> pushed, file |-> w.file, threw |-> w.threw, animal |-> animal] :
            w \in writeFileSync(oldFile, stringify(pushed))}

-----------------------------------------------------------------------------
(* Requests and the data the server starts from *)

Animal(id, name, species, diet, traits) ==
    [id |-> id, name |-> name, species |-> species, diet |-> diet,
     personalityTraits |-> traits]

Rex == Animal(Str("0"), Str("Rex"), Str("Dog"), Str("omnivore"), Arr(<<"loyal">>))
Gus == Animal(Str("1"), Str("Gus"), Str("Cat"), Str("carnivore"), Arr(<<"aloof", "loyal">>))

\* Contents of data/animals.json at start-up: records of the data model's
\* types with pairwise distinct ids.  The ids need not be the indices.
SeedStores ==
    { <<>>,
      <<Rex>>,
      <<Rex, Gus>>,
      <<[Rex EXCEPT !.id = Str("1")]>>,
      <<[Rex EXCEPT !.id = Str("rex")]>> }

\* Bodies of POST /api/animals as express.json()/urlencoded() parse them.
Milo == Animal(Undefined, Str("Milo"), Str("Cat"), Str("carnivore"), Arr(<<"aloof">>))
Leo == Animal(Str("0"), Str("Leo"), Str("Lion"), Str("carnivore"), Arr(<<>>))

Bodies ==
    { Milo,
      Leo,
      [Leo EXCEPT !.name = Undefined],
      [Milo EXCEPT !.name = Str("")],
      [Milo EXCEPT !.name = Num("5")],
      [Milo EXCEPT !.species = Str("")],
      [Milo EXCEPT !.species = Undefined],
      [Milo EXCEPT !.diet = Str("")],
      [Milo EXCEPT !.diet = Num("0")],
      [Milo EXCEPT !.personalityTraits = Str("aloof")],
      [Milo EXCEPT !.personalityTraits = Undefined] }

\* req.query of GET /api/animals: the four keys the filter reads and one it
\* does not (color).  A key given once is a string, given twice an array,
\* given with nothing after the = sign the empty string.
Query(traits, diet, species, name, color) ==
    [personalityTraits |-> traits, diet |-> diet, species |-> species,
     name |-> name, color |-> color]

NoQuery == Query(Undefined, Undefined, Undefined, Undefined, Undefined)

Queries ==
    { NoQuery,
      [NoQuery EXCEPT !.color = Str("brown")],
      [NoQuery EXCEPT !.personalityTraits = Str("aloof")],
      [NoQuery EXCEPT !.personalityTraits = Str("loyal")],
      [NoQuery EXCEPT !.personalityTraits = Str("")],
      [NoQuery EXCEPT !.personalityTraits = Arr(<<"aloof", "loyal">>)],
      [NoQuery EXCEPT !.personalityTraits = Arr(<<"loyal", "shy">>)],
      [NoQuery EXCEPT !.diet = Str("carnivore")],
      [NoQuery EXCEPT !.diet = Str("")],
      [NoQuery EXCEPT !.diet = Arr(<<"carnivore", "omnivore">>)],
      [NoQuery EXCEPT !.species = Str("Cat")],
      [NoQuery EXCEPT !.species = Str("")],
      [NoQuery EXCEPT !.name = Str("Milo")],
      [NoQuery EXCEPT !.name = Str("")],
      Query(Str("aloof"), Str("carnivore"), Undefined, Undefined, Str("brown")),
      Query(Arr(<<"aloof", "loyal">>), Str(""), Str("Cat"), Undefined, Undefined),
      Query(Undefined, Str("carnivore"), Str("Cat"), Str("Milo"), Undefined),
      Query(Str("loyal"), Str("omnivore"), Str("Cat"), Undefined, Undefined) }

\* req.params.id of GET /api/animals/:id: always a string.
Ids == {"0", "1", "2", "rex"}

NoBody == Animal(Undefined, Undefined, Undefined, Undefined, Undefined)

Request(route, query, id, body) ==
    [route |-> route, query |-> query, id |-> id, body |-> body]
Response(status, json, text) ==
    [status |-> status, json |-> json, text |-> text]

-----------------------------------------------------------------------------
(* The server *)

Init ==
    /\ animals \in SeedStores
    /\ file = stringify(animals)
    /\ loaded = animals
    /\ req = Request("none", NoQuery, Undefined, NoBody)
    /\ res = Response(0, <<>>, "")
    /\ returned = {}

\* app.get('/api/animals'), server.js:116-122
ListAnimals ==
    \E query \in Queries :
        /\ req' = Request("GET /api/animals", query, Undefined, NoBody)
        /\ res' = Response(200, filterByQuery(query, animals), "")
        /\ UNCHANGED <<animals, file, loaded, returned>>

\* app.get('/api/animals/:id'), server.js:124-131
GetAnimalById ==
    \E id \in Ids :
        LET result == findById(Str(id), animals)
        IN  /\ req' = Request("GET /api/animals/:id", NoQuery, Str(id), NoBody)
            /\ res' = IF result # <<>>
                      THEN Response(200, result, "")
                      ELSE Response(404, <<>>, "")
            /\ UNCHANGED <<animals, file, loaded, returned>>

\* Variant: the id the candidate carried is kept.
assignId_KeepCarried(body, animalsArray) == body

\* Variant: the id is the length after the insert.
assignId_PostLength(body, animalsArray) ==
    [body EXCEPT !.id = Str(toString(Len(animalsArray) + 1))]

\* req.body.id = animals.length.toString(), server.js:169
assignId(body, animalsArray) ==
    [body EXCEPT !.id = Str(toString(Len(animalsArray)))]

\* app.post('/api/animals'), server.js:167-180.  An exception thrown by the
\* handler is caught by the router and answered with status 500.
PostAnimal ==
    \E body \in Bodies :
        LET withId == assignId(body, animals)
        IN  /\ req' = Request("POST /api/animals", NoQuery, Undefined, body)
            /\ IF ~validateAnimal(withId)
               THEN /\ res' = Response(400, <<>>, "The animal is not properly formatted.")
                    /\ UNCHANGED <<animals, file, loaded, returned>>
               ELSE /\ Len(animals) < MaxAnimals
                    /\ \E out \in createNewAnimal(withId, animals, file) :
                          /\ animals' = out.animals
                          /\ file' = out.file
                          /\ IF out.threw
                             THEN /\ res' = Response(500, <<>>, "")
                                  /\ returned' = returned
                             ELSE /\ res' = Response(200, <<out.animal>>, "")
                                  /\ returned' = returned \cup {out.animal}
                          /\ UNCHANGED loaded

Next == ListAnimals \/ GetAnimalById \/ PostAnimal

Spec == Init /\ [][Next]_vars

-----------------------------------------------------------------------------
(* Vocabulary of the properties *)

\* The decimal numeral of n, written out.
DecimalOf(n) ==
    <<"0", "1", "2", "3", "4", "5", "6", "7", "8", "9", "10", "11", "12">>[n + 1]

Range(seq) == {seq[i] : i \in 1..Len(seq)}

IdsDistinct(animalsArray) ==
    \A i, j \in 1..Len(animalsArray) :
        i # j => animalsArray[i].id # animalsArray[j].id

\* No loaded record carries the numeral of an index that an insert can
\* still hand out (the loaded length or above).
NoIdAhead(animalsArray) ==
    \A i \in 1..Len(animalsArray) :
        \A n \in Len(animalsArray)..(MaxAnimals + 1) :
            animalsArray[i].id # Str(DecimalOf(n))

IsPost == req.route = "POST /api/animals"
IsList == req.route = "GET /api/animals"
IsGet == req.route = "GET /api/animals/:id"

\* Inserts whose write threw: appended but never answered with a record.
FailedInserts == Len(animals) - Len(loaded) - Cardinality(returned)

-----------------------------------------------------------------------------
\* C1 (as stated): starting from a loaded store with pairwise distinct ids,
\* the ids of the in-memory records stay pairwise distinct whatever requests
\* are served.
C1_IdsStayDistinct == IdsDistinct(loaded) => IdsDistinct(animals)

\* C1 (amended): starting from a loaded store whose ids are pairwise distinct
\* and none of which is the decimal numeral of an integer at or above the
\* loaded length, the ids of the in-memory records stay pairwise distinct.
C1_IdsStayDistinctFromSafeSeed ==
    (IdsDistinct(loaded) /\ NoIdAhead(loaded)) => IdsDistinct(animals)

\* A non-empty safe store that took two inserts, one of them with a failed
\* write, and has just rejected a candidate.
C1_Witness ==
    /\ loaded # <<>>
    /\ NoIdAhead(loaded)
    /\ Len(animals) = Len(loaded) + 2
    /\ FailedInserts >= 1
    /\ IsPost /\ res.status = 400

-----------------------------------------------------------------------------
\* C2: whenever POST /api/animals answers with the record, the file holds the
\* serialization of the whole in-memory array, the record just appended
\* included, also after an earlier insert whose write failed.
C2_FileInSyncOnSuccess ==
    (IsPost /\ res.status = 200) =>
        /\ file = stringify(animals)
        /\ animals[Len(animals)] = res.json[1]
        /\ file[Len(file) - 1] = StringifyAnimal(res.json[1])

\* A successful insert made after an insert whose write had failed.
C2_Witness ==
    /\ IsPost /\ res.status = 200
    /\ FailedInserts >= 1
    /\ file = stringify(animals)

-----------------------------------------------------------------------------
\* C3: the in-memory array is append-only: every step keeps each record at
\* its index unchanged, never shortens the array, and lengthens it by one
\* exactly when the step is a POST whose candidate passes validation.
C3_AppendOnly ==
    [][ /\ Len(animals') >= Len(animals)
        /\ SubSeq(animals', 1, Len(animals)) = animals
        /\ Len(animals') =
              Len(animals) +
              (IF req'.route = "POST /api/animals" /\ validateAnimal(req'.body)
               THEN 1 ELSE 0)
      ]_vars

\* A list request served after the array has grown by two.
C3_Witness ==
    /\ IsList
    /\ Len(animals) = Len(loaded) + 2
    /\ loaded # <<>>
    /\ SubSeq(animals, 1, Len(loaded)) = loaded

-----------------------------------------------------------------------------
\* C4: an accepted POST on an array of length n answers with a record whose
\* id is the decimal numeral of n, whatever id the candidate carried, and that
\* record is the element at index n of the array afterwards.
C4_IdIsPreInsertionLength ==
    [][ (req'.route = "POST /api/animals" /\ res'.status = 200) =>
            /\ Len(res'.json) = 1
            /\ res'.json[1].id = Str(DecimalOf(Len(animals)))
            /\ Len(animals') = Len(animals) + 1
            /\ animals'[Len(animals) + 1] = res'.json[1]
            /\ res'.json[1] = [req'.body EXCEPT !.id = Str(DecimalOf(Len(animals)))]
      ]_vars

\* A candidate that carried the id "0" was stored and answered with id "2".
C4_Witness ==
    /\ IsPost /\ res.status = 200
    /\ req.body.id = Str("0")
    /\ res.json[1].id = Str("2")
    /\ animals[3] = res.json[1]

-----------------------------------------------------------------------------
(* Vocabulary of the validator and filter properties *)

\* Present and of string type.
PresentString(v) == v.type = "string"

\* Present, of string type and not the empty string.
NonEmptyString(v) == v.type = "string" /\ v.val # <<"">>

\* Present and an array.
PresentArray(v) == v.type = "array"

TypedCandidate(c) ==
    /\ PresentString(c.name) /\ PresentString(c.species) /\ PresentString(c.diet)
    /\ PresentArray(c.personalityTraits)

AcceptableCandidate(c) ==
    /\ NonEmptyString(c.name) /\ NonEmptyString(c.species) /\ NonEmptyString(c.diet)
    /\ PresentArray(c.personalityTraits)

\* The traits a query asks for: one string counts as a one-element sequence.
Requested(q) ==
    IF q.personalityTraits.type = "string"
    THEN <<q.personalityTraits.val[1]>>
    ELSE q.personalityTraits.val

HasEveryTrait(animal, traits) ==
    \A t \in Range(traits) : t \in Range(animal.personalityTraits.val)

\* The query filters by personalityTraits and by nothing else.
OnlyTraits(q) ==
    /\ q.personalityTraits # Undefined
    /\ q.diet = Undefined /\ q.species = Undefined /\ q.name = Undefined

\* Exact string equality of a record's field with a query value.
SameString(field, value) == value.type = "string" /\ field = value

Supplied(v) == v # Undefined
SuppliedNonEmpty(v) == v # Undefined /\ v # Str("")

MatchesAllSupplied(animal, q) ==
    /\ Supplied(q.personalityTraits) => HasEveryTrait(animal, Requested(q))
    /\ Supplied(q.diet) => SameString(animal.diet, q.diet)
    /\ Supplied(q.species) => SameString(animal.species, q.species)
    /\ Supplied(q.name) => SameString(animal.name, q.name)

MatchesAllNonEmpty(animal, q) ==
    /\ SuppliedNonEmpty(q.personalityTraits) => HasEveryTrait(animal, Requested(q))
    /\ SuppliedNonEmpty(q.diet) => SameString(animal.diet, q.diet)
    /\ SuppliedNonEmpty(q.species) => SameString(animal.species, q.species)
    /\ SuppliedNonEmpty(q.name) => SameString(animal.name, q.name)

-----------------------------------------------------------------------------
\* C5 (as stated): the validator accepts a candidate exactly when name,
\* species and diet are present strings and personalityTraits is a present
\* array; the content of the strings does not matter, so "" passes.
C5_AcceptsByTypeAlone ==
    IsPost =>
        /\ validateAnimal(req.body) <=> TypedCandidate(req.body)
        /\ (res.status # 400) <=> TypedCandidate(req.body)

\* C5 (amended): the validator accepts a candidate exactly when name, species
\* and diet are present, of string type and not empty, and personalityTraits
\* is a present array; a candidate whose name, species or diet is the empty
\* string fails, as does one with a field missing or of the wrong type.
C5_AcceptsNonEmptyStrings ==
    IsPost =>
        /\ validateAnimal(req.body) <=> AcceptableCandidate(req.body)
        /\ (res.status # 400) <=> AcceptableCandidate(req.body)

\* A candidate whose only defect is an empty name has been rejected.
C5_Witness ==
    /\ IsPost /\ res.status = 400
    /\ req.body.name = Str("")
    /\ TypedCandidate(req.body)

-----------------------------------------------------------------------------
\* C6 (as stated): a query by personalityTraits alone, one string or a
\* sequence of strings, is answered with exactly the records that have every
\* requested trait.
C6_EveryRequestedTrait ==
    (IsList /\ OnlyTraits(req.query)) =>
        res.json = SelectSeq(animals,
                             LAMBDA animal : HasEveryTrait(animal, Requested(req.query)))

\* C6 (amended): a query by personalityTraits alone, one non-empty string or
\* a sequence of strings, is answered with exactly the records that have every
\* requested trait: the intersection, not the union, of the per-trait results.
C6_EveryRequestedNonEmptyTrait ==
    (IsList /\ OnlyTraits(req.query) /\ req.query.personalityTraits # Str("")) =>
        /\ res.json = SelectSeq(animals,
                                LAMBDA animal : HasEveryTrait(animal, Requested(req.query)))
        /\ \A animal \in Range(animals) :
              animal \in Range(res.json) <=>
                  \A t \in Range(Requested(req.query)) :
                      animal \in Range(SelectSeq(animals,
                                                 LAMBDA a : HasEveryTrait(a, <<t>>)))

\* Two traits were asked for; one record has both, another only the first and
\* a third only the second, and only the first of the three is returned.
C6_Witness ==
    /\ IsList /\ OnlyTraits(req.query)
    /\ req.query.personalityTraits = Arr(<<"aloof", "loyal">>)
    /\ Len(res.json) = 1
    /\ \E a \in Range(animals) :
          HasEveryTrait(a, <<"aloof">>) /\ ~HasEveryTrait(a, <<"loyal">>)
    /\ \E a \in Range(animals) :
          HasEveryTrait(a, <<"loyal">>) /\ ~HasEveryTrait(a, <<"aloof">>)

-----------------------------------------------------------------------------
\* C7 (as stated): GET /api/animals answers with the subsequence, in store
\* order, of the records meeting every supplied criterion, a supplied diet,
\* species or name matching by exact string equality only; other keys are
\* ignored and a query with no recognized key returns the whole store.
C7_AllSuppliedCriteria ==
    IsList =>
        res.json = SelectSeq(animals, LAMBDA animal : MatchesAllSupplied(animal, req.query))

\* C7 (amended): as stated, for criteria supplied with a non-empty value; a
\* recognized key supplied with the empty string is ignored like an absent key.
C7_AllNonEmptyCriteria ==
    IsList =>
        res.json = SelectSeq(animals, LAMBDA animal : MatchesAllNonEmpty(animal, req.query))

\* A query with a trait, a diet and an unrecognized key returned two of three
\* records, in store order.
C7_Witness ==
    /\ IsList
    /\ req.query = Query(Str("aloof"), Str("carnivore"), Undefined, Undefined, Str("brown"))
    /\ Len(animals) = 3
    /\ res.json = <<animals[2], animals[3]>>

-----------------------------------------------------------------------------
\* C8 (as stated): once POST /api/animals has answered with a record of id k,
\* every later GET /api/animals/k answers with a record equal to it.
C8_CreatedIsFound ==
    IsGet =>
        \A r \in returned :
            r.id = req.id => (res.status = 200 /\ res.json = <<r>>)

\* C8 (amended): the same, provided no record of the loaded store carries the
\* decimal numeral of an integer at or above the loaded length.
C8_CreatedIsFoundFromSafeSeed ==
    (IsGet /\ NoIdAhead(loaded)) =>
        \A r \in returned :
            r.id = req.id => (res.status = 200 /\ res.json = <<r>>)

\* A created record is looked up after a further record has been appended.
C8_Witness ==
    /\ IsGet /\ res.status = 200
    /\ loaded # <<>>
    /\ NoIdAhead(loaded)
    /\ res.json[1] \in returned
    /\ animals[Len(animals)] # res.json[1]

-----------------------------------------------------------------------------
(* Vocabulary of the persistence properties *)

\* The file holds the complete document of an initial part of the array.
PersistedIsPrefix ==
    \E k \in 0..Len(animals) : file = stringify(SubSeq(animals, 1, k))

\* The file holds the document of an initial part of the array, complete or
\* cut short.
PersistedIsTextPrefix ==
    LET n == Len(file)
    IN  \/ /\ n <= Len(animals) + 1
           /\ file = SubSeq(stringify(animals), 1, n)
        \/ /\ n >= 2
           /\ n - 2 <= Len(animals)
           /\ file = stringify(SubSeq(animals, 1, n - 2))

\* C9 (as stated): when the write fails the request is answered with a server
\* error, the append stays, and the file keeps its prior content; the
\* persisted sequence is always a prefix of the in-memory sequence.
C9_FailedWriteKeepsFile ==
    [][ /\ (req'.route = "POST /api/animals" /\ res'.status = 500) =>
              /\ Len(animals') = Len(animals) + 1
              /\ SubSeq(animals', 1, Len(animals)) = animals
              /\ file' = file
        /\ PersistedIsPrefix'
      ]_vars

\* C9 (amended): when the write fails the request is answered with a server
\* error, the append stays, and the file keeps its prior content or is left
\* holding what had been written of the new document, a prefix of it; the file
\* always holds the document, complete or cut short, of a prefix of the
\* in-memory sequence.
C9_FailedWriteKeepsOrTruncatesFile ==
    /\ PersistedIsTextPrefix
    /\ [][ /\ (req'.route = "POST /api/animals" /\ res'.status = 500) =>
                  /\ Len(animals') = Len(animals) + 1
                  /\ SubSeq(animals', 1, Len(animals)) = animals
                  /\ animals'[Len(animals')].id = Str(DecimalOf(Len(animals)))
                  /\ \/ file' = file
                     \/ \E m \in 0..(Len(animals') + 2) :
                            file' = SubSeq(stringify(animals'), 1, m)
            \* a step that touches neither the array nor the file keeps it
            /\ (UNCHANGED <<animals, file>> \/ PersistedIsTextPrefix')
          ]_vars

\* A write has failed part-way: the record is in memory, the file is cut short.
C9_Witness ==
    /\ IsPost /\ res.status = 500
    /\ Len(animals) = Len(loaded) + 1
    /\ ~PersistedIsPrefix
    /\ PersistedIsTextPrefix

-----------------------------------------------------------------------------
\* C10: a POST whose candidate fails validation is answered with the
\* validation error and changes neither the in-memory array nor the file, so
\* the id the next accepted candidate gets is not used up.
C10_RejectedChangesNothing ==
    [][ (req'.route = "POST /api/animals" /\ ~AcceptableCandidate(req'.body)) =>
            /\ res'.status = 400
            /\ res'.text = "The animal is not properly formatted."
            /\ animals' = animals
            /\ file' = file
            /\ DecimalOf(Len(animals')) = DecimalOf(Len(animals))
      ]_vars

\* A candidate without a name was rejected by a store that had already grown.
C10_Witness ==
    /\ IsPost /\ res.status = 400
    /\ req.body.name = Undefined
    /\ Len(animals) = Len(loaded) + 1
    /\ file = stringify(animals)

====
